---- MODULE Spec2Model ----
(***************************************************************************)
(* Preprocessor-level model of src/tusb_config.h (TinyUSB configuration    *)
(* for the SAMD5x mouse/keyboard box).                                     *)
(*                                                                         *)
(* The state is the preprocessor's macro table while a translation unit    *)
(* that includes the header is processed: the definitions made on the      *)
(* command line (-D) are installed first, then the header's directives     *)
(* are processed in textual order, then the text after the #include        *)
(* (the consumers) is processed and expands the macros.                    *)
(*                                                                         *)
(* #define of a macro that already has a different replacement list is     *)
(* modelled as the toolchains this header is built with treat it (GCC and  *)
(* Clang): a "redefined" diagnostic is issued and the new definition       *)
(* replaces the old one.  An identical redefinition is silent.             *)
(***************************************************************************)
EXTENDS Integers, FiniteSets, Sequences, TLC

(* ------------------------------------------------------------------ *)
(* Bounds                                                              *)
(* ------------------------------------------------------------------ *)
\* at most this many macros are defined on the command line
MaxExternal == 2
\* the translation unit includes the header at most this many times
MaxIncludes == 2
\* the consumers expand CFG_TUH_DEVICE_MAX at most this many times
MaxReads == 2
\* largest hub count tried for the derived-value expression
MaxHub == 3

(* ------------------------------------------------------------------ *)
(* Macro names                                                         *)
(* ------------------------------------------------------------------ *)
TUSB_CONFIG_H_              == "_TUSB_CONFIG_H_"
CFG_TUSB_MCU                == "CFG_TUSB_MCU"
CFG_TUSB_OS                 == "CFG_TUSB_OS"
CFG_TUSB_DEBUG              == "CFG_TUSB_DEBUG"
CFG_TUD_ENABLED             == "CFG_TUD_ENABLED"
CFG_TUH_ENABLED             == "CFG_TUH_ENABLED"
CFG_TUD_MAX_SPEED           == "CFG_TUD_MAX_SPEED"
CFG_TUSB_MEM_SECTION        == "CFG_TUSB_MEM_SECTION"
CFG_TUSB_MEM_ALIGN          == "CFG_TUSB_MEM_ALIGN"
CFG_TUD_ENDPOINT0_SIZE      == "CFG_TUD_ENDPOINT0_SIZE"
CFG_TUD_HID                 == "CFG_TUD_HID"
CFG_TUD_CDC                 == "CFG_TUD_CDC"
CFG_TUD_MSC                 == "CFG_TUD_MSC"
CFG_TUD_MIDI                == "CFG_TUD_MIDI"
CFG_TUD_VENDOR              == "CFG_TUD_VENDOR"
CFG_TUD_HID_EP_BUFSIZE      == "CFG_TUD_HID_EP_BUFSIZE"
CFG_TUH_ENUMERATION_BUFSIZE == "CFG_TUH_ENUMERATION_BUFSIZE"
CFG_TUH_HUB                 == "CFG_TUH_HUB"
CFG_TUH_CDC                 == "CFG_TUH_CDC"
CFG_TUH_HID                 == "CFG_TUH_HID"
CFG_TUH_MSC                 == "CFG_TUH_MSC"
CFG_TUH_VENDOR              == "CFG_TUH_VENDOR"
CFG_TUH_DEVICE_MAX          == "CFG_TUH_DEVICE_MAX"

\* platform hints tested by the #if cascade
ARDUINO_ARCH_SAMD   == "ARDUINO_ARCH_SAMD"
ARDUINO_ARCH_RP2040 == "ARDUINO_ARCH_RP2040"
ARDUINO_ARCH_ESP32  == "ARDUINO_ARCH_ESP32"

Hints == {ARDUINO_ARCH_SAMD, ARDUINO_ARCH_RP2040, ARDUINO_ARCH_ESP32}

\* options guarded by #ifndef: an external definition is kept
Overridable ==
  {CFG_TUSB_MCU, CFG_TUSB_OS, CFG_TUSB_DEBUG, CFG_TUSB_MEM_SECTION,
   CFG_TUSB_MEM_ALIGN, CFG_TUD_ENDPOINT0_SIZE}

RoleFlags == {CFG_TUD_ENABLED, CFG_TUH_ENABLED}

DeviceClassTable ==
  {CFG_TUD_HID, CFG_TUD_CDC, CFG_TUD_MSC, CFG_TUD_MIDI, CFG_TUD_VENDOR,
   CFG_TUD_HID_EP_BUFSIZE}

HostClassTable ==
  {CFG_TUH_ENUMERATION_BUFSIZE, CFG_TUH_HUB, CFG_TUH_CDC, CFG_TUH_HID,
   CFG_TUH_MSC, CFG_TUH_VENDOR}

\* options defined by a plain #define of a literal
Fixed == RoleFlags \cup {CFG_TUD_MAX_SPEED} \cup DeviceClassTable \cup HostClassTable

Options == Overridable \cup Fixed \cup {CFG_TUH_DEVICE_MAX}

MacroNames == Options \cup {TUSB_CONFIG_H_}

(* ------------------------------------------------------------------ *)
(* Replacement lists                                                   *)
(* ------------------------------------------------------------------ *)
Undef      == [kind |-> "undef",   num |-> 0, sym |-> ""]
Empty      == [kind |-> "empty",   num |-> 0, sym |-> ""]
Num(n)     == [kind |-> "num",     num |-> n, sym |-> ""]
Sym(s)     == [kind |-> "sym",     num |-> 0, sym |-> s]
Aligned(n) == [kind |-> "aligned", num |-> n, sym |-> ""]
Section(s) == [kind |-> "section", num |-> 0, sym |-> s]
\* the replacement list (CFG_TUH_HUB ? 4 : 1), kept unexpanded in the table
HubTernary == [kind |-> "ternary", num |-> 0, sym |-> CFG_TUH_HUB]
\* what a use of an expression over an undefined identifier yields
Invalid    == [kind |-> "invalid", num |-> 0, sym |-> ""]

OPT_MCU_SAMD51   == Sym("OPT_MCU_SAMD51")
OPT_MCU_RP2040   == Sym("OPT_MCU_RP2040")
OPT_MCU_ESP32S2  == Sym("OPT_MCU_ESP32S2")
OPT_MCU_NONE     == Sym("OPT_MCU_NONE")
OPT_OS_NONE      == Sym("OPT_OS_NONE")
OPT_MODE_DEFAULT_SPEED == Sym("OPT_MODE_DEFAULT_SPEED")

(* ------------------------------------------------------------------ *)
(* The header's rules                                                  *)
(* ------------------------------------------------------------------ *)
\* the cascade with the RP2040 test moved in front of the SAMD test
resolve_platform_rp2040_first(h) ==
  IF ARDUINO_ARCH_RP2040 \in h THEN OPT_MCU_RP2040
  ELSE IF ARDUINO_ARCH_SAMD \in h THEN OPT_MCU_SAMD51
  ELSE IF ARDUINO_ARCH_ESP32 \in h THEN OPT_MCU_ESP32S2
  ELSE OPT_MCU_NONE

\* the #if / #elif / #else cascade over the platform hints
resolve_platform(h) ==
  IF ARDUINO_ARCH_SAMD \in h THEN OPT_MCU_SAMD51
  ELSE IF ARDUINO_ARCH_RP2040 \in h THEN OPT_MCU_RP2040
  ELSE IF ARDUINO_ARCH_ESP32 \in h THEN OPT_MCU_ESP32S2
  ELSE OPT_MCU_NONE

\* the defaults with the alignment mistyped as 1
DefaultAlign1(o, h) ==
  CASE o = CFG_TUSB_MCU           -> resolve_platform(h)
    [] o = CFG_TUSB_OS            -> OPT_OS_NONE
    [] o = CFG_TUSB_DEBUG         -> Num(0)
    [] o = CFG_TUSB_MEM_SECTION   -> Empty
    [] o = CFG_TUSB_MEM_ALIGN     -> Aligned(1)
    [] o = CFG_TUD_ENDPOINT0_SIZE -> Num(64)

\* replacement list the header gives an #ifndef-guarded option
Default(o, h) ==
  CASE o = CFG_TUSB_MCU           -> resolve_platform(h)
    [] o = CFG_TUSB_OS            -> OPT_OS_NONE
    [] o = CFG_TUSB_DEBUG         -> Num(0)
    [] o = CFG_TUSB_MEM_SECTION   -> Empty
    [] o = CFG_TUSB_MEM_ALIGN     -> Aligned(4)
    [] o = CFG_TUD_ENDPOINT0_SIZE -> Num(64)

\* replacement list of a plain #define
Literal(o) ==
  CASE o = CFG_TUD_ENABLED             -> Num(1)
    [] o = CFG_TUH_ENABLED             -> Num(1)
    [] o = CFG_TUD_MAX_SPEED           -> OPT_MODE_DEFAULT_SPEED
    [] o = CFG_TUD_HID                 -> Num(3)
    [] o = CFG_TUD_CDC                 -> Num(0)
    [] o = CFG_TUD_MSC                 -> Num(0)
    [] o = CFG_TUD_MIDI                -> Num(0)
    [] o = CFG_TUD_VENDOR              -> Num(0)
    [] o = CFG_TUD_HID_EP_BUFSIZE      -> Num(64)
    [] o = CFG_TUH_ENUMERATION_BUFSIZE -> Num(256)
    [] o = CFG_TUH_HUB                 -> Num(0)
    [] o = CFG_TUH_CDC                 -> Num(0)
    [] o = CFG_TUH_HID                 -> Num(4)
    [] o = CFG_TUH_MSC                 -> Num(0)
    [] o = CFG_TUH_VENDOR              -> Num(0)
    [] o = CFG_TUH_DEVICE_MAX          -> HubTernary

\* the header's defaults and literals as tables from name to replacement list
Defaults(h) == [o \in Overridable |-> Default(o, h)]

Literals == [o \in Fixed \cup {CFG_TUH_DEVICE_MAX} |-> Literal(o)]

\* #define NAME body[NAME], for every NAME in S
Define(t, S, body) ==
  [n \in DOMAIN t |-> IF n \in S THEN body[n] ELSE t[n]]

\* the names of S whose #define replaces a different earlier definition
Redefined(t, S, body) ==
  {n \in S : t[n] # Undef /\ t[n] # body[n]}

\* the rule with its #ifndef / #endif lines dropped
IfndefDefineUnguarded(t, S, body) ==
  [n \in DOMAIN t |-> IF n \in S THEN body[n] ELSE t[n]]

\* #ifndef NAME / #define NAME body / #endif, for every NAME in S
IfndefDefine(t, S, body) ==
  [n \in DOMAIN t |-> IF n \in S /\ t[n] = Undef THEN body[n] ELSE t[n]]

\* the expansion with the condition written as CFG_TUH_HUB > 1
ExpandAboveOne(t, n) ==
  IF t[n] = HubTernary
    THEN IF t[CFG_TUH_HUB].kind # "num" THEN Invalid
         ELSE IF t[CFG_TUH_HUB].num > 1 THEN Num(4) ELSE Num(1)
    ELSE t[n]

\* full macro expansion of NAME where the consumers use it
Expand(t, n) ==
  IF t[n] = HubTernary
    THEN IF t[CFG_TUH_HUB].kind # "num" THEN Invalid
         ELSE IF t[CFG_TUH_HUB].num # 0 THEN Num(4) ELSE Num(1)
    ELSE t[n]

\* the order with line 90 moved above the host class table
TextOrderDerivedEarly == <<"L13", "L25", "L29", "L34", "L40", "L49", "L61", "L66", "L90", "L81">>

\* first lines of the header's rules, in textual order
TextOrder == <<"L13", "L25", "L29", "L34", "L40", "L49", "L61", "L66", "L81", "L90">>

\* position reached when the rule starting at line l is finished;
\* "tu" is the text of the translation unit outside the header
After(l) ==
  LET i == CHOOSE k \in 1..Len(TextOrder) : TextOrder[k] = l
  IN  IF i = Len(TextOrder) THEN "tu" ELSE TextOrder[i + 1]

(* ------------------------------------------------------------------ *)
(* The build environment                                               *)
(* ------------------------------------------------------------------ *)
\* the value a command-line definition of o supplies (differs from the
\* header's own value for o)
External(o) ==
  CASE o = CFG_TUSB_MCU                -> Sym("OPT_MCU_NRF5X")
    [] o = CFG_TUSB_OS                 -> Sym("OPT_OS_FREERTOS")
    [] o = CFG_TUSB_DEBUG              -> Num(2)
    [] o = CFG_TUSB_MEM_SECTION        -> Section(".usb_ram")
    [] o = CFG_TUSB_MEM_ALIGN          -> Aligned(16)
    [] o = CFG_TUD_ENDPOINT0_SIZE      -> Num(8)
    [] o = CFG_TUD_ENABLED             -> Num(0)
    [] o = CFG_TUH_ENABLED             -> Num(0)
    [] o = CFG_TUD_MAX_SPEED           -> Sym("OPT_MODE_FULL_SPEED")
    [] o = CFG_TUD_HID                 -> Num(1)
    [] o = CFG_TUD_CDC                 -> Num(1)
    [] o = CFG_TUD_MSC                 -> Num(1)
    [] o = CFG_TUD_MIDI                -> Num(1)
    [] o = CFG_TUD_VENDOR              -> Num(1)
    [] o = CFG_TUD_HID_EP_BUFSIZE      -> Num(16)
    [] o = CFG_TUH_ENUMERATION_BUFSIZE -> Num(512)
    [] o = CFG_TUH_HUB                 -> Num(2)
    [] o = CFG_TUH_CDC                 -> Num(1)
    [] o = CFG_TUH_HID                 -> Num(1)
    [] o = CFG_TUH_MSC                 -> Num(1)
    [] o = CFG_TUH_VENDOR              -> Num(1)
    [] o = CFG_TUH_DEVICE_MAX          -> Num(8)

RECURSIVE SubsetsUpTo(_, _)
\* the subsets of S with at most k elements
SubsetsUpTo(S, k) ==
  IF k = 0 THEN {{}}
  ELSE LET P == SubsetsUpTo(S, k - 1)
       IN  P \cup {s \cup {n} : s \in P, n \in S}

\* command lines: which options are defined with -D
CommandLines ==
  {[o \in Options |-> IF o \in S THEN External(o) ELSE Undef] :
     S \in SubsetsUpTo(Options, MaxExternal)}

(* ------------------------------------------------------------------ *)
(* State                                                               *)
(* ------------------------------------------------------------------ *)
VARIABLES
  env,       \* the -D definitions of the build (fixed for a build)
  hints,     \* the platform hints the toolchain defines (fixed for a build)
  macros,    \* the preprocessor's macro table
  pc,        \* "start", "tu", or the label of the line where the next rule starts
  diags,     \* names for which a "redefined" diagnostic was issued
  resolved,  \* per option, how many times its rule in the header has run
  includes,  \* how many #include "tusb_config.h" were processed
  reads,     \* how many times a consumer expanded CFG_TUH_DEVICE_MAX
  observed   \* what the last such expansion gave

vars == <<env, hints, macros, pc, diags, resolved, includes, reads, observed>>

Init ==
  /\ env \in CommandLines
  /\ hints \in SUBSET Hints
  /\ macros = [n \in MacroNames |-> Undef]
  /\ pc = "start"
  /\ diags = {}
  /\ resolved = [o \in Options |-> 0]
  /\ includes = 0
  /\ reads = 0
  /\ observed = Undef

\* the header has been processed to its end at least once
Done == pc = "tu" /\ macros[TUSB_CONFIG_H_] # Undef

\* rule bookkeeping shared by the actions: the rules of the options in S ran
Ran(S) == resolved' = [o \in Options |-> IF o \in S THEN resolved[o] + 1 ELSE resolved[o]]

(* ------------------------------------------------------------------ *)
(* Actions                                                             *)
(* ------------------------------------------------------------------ *)
\* the compiler installs the -D definitions before it reads any text
ApplyCommandLine ==
  /\ pc = "start"
  /\ macros' = [n \in MacroNames |-> IF n \in Options THEN env[n] ELSE Undef]
  /\ pc' = "tu"
  /\ UNCHANGED <<env, hints, diags, resolved, includes, reads, observed>>

\* the header without its include guard
IncludeUnguarded ==
  /\ pc = "tu"
  /\ includes < MaxIncludes
  /\ includes' = includes + 1
  /\ macros' = [macros EXCEPT ![TUSB_CONFIG_H_] = Empty]
  /\ pc' = TextOrder[1]
  /\ UNCHANGED <<env, hints, diags, resolved, reads, observed>>

\* #include "tusb_config.h": lines 1-2 and 96, the include guard
Include ==
  /\ pc = "tu"
  /\ includes < MaxIncludes
  /\ includes' = includes + 1
  /\ IF macros[TUSB_CONFIG_H_] = Undef
       THEN /\ macros' = [macros EXCEPT ![TUSB_CONFIG_H_] = Empty]
            /\ pc' = TextOrder[1]
       ELSE /\ macros' = macros
            /\ pc' = "tu"
  /\ UNCHANGED <<env, hints, diags, resolved, reads, observed>>

\* lines 13-23
ResolvePlatform ==
  /\ pc = "L13"
  /\ macros' = IfndefDefine(macros, {CFG_TUSB_MCU}, Defaults(hints))
  /\ Ran({CFG_TUSB_MCU})
  /\ pc' = After("L13")
  /\ UNCHANGED <<env, hints, diags, includes, reads, observed>>

\* lines 25-27
ResolveOs ==
  /\ pc = "L25"
  /\ macros' = IfndefDefine(macros, {CFG_TUSB_OS}, Defaults(hints))
  /\ Ran({CFG_TUSB_OS})
  /\ pc' = After("L25")
  /\ UNCHANGED <<env, hints, diags, includes, reads, observed>>

\* lines 29-31
ResolveDebugLevel ==
  /\ pc = "L29"
  /\ macros' = IfndefDefine(macros, {CFG_TUSB_DEBUG}, Defaults(hints))
  /\ Ran({CFG_TUSB_DEBUG})
  /\ pc' = After("L29")
  /\ UNCHANGED <<env, hints, diags, includes, reads, observed>>

\* the role flags wrapped in #ifndef
SetRoleFlagsIfndef ==
  /\ pc = "L34"
  /\ macros' = IfndefDefine(macros, RoleFlags, Literals)
  /\ diags' = diags
  /\ Ran(RoleFlags)
  /\ pc' = After("L34")
  /\ UNCHANGED <<env, hints, includes, reads, observed>>

\* lines 34-37
SetRoleFlags ==
  /\ pc = "L34"
  /\ macros' = Define(macros, RoleFlags, Literals)
  /\ diags' = diags \cup Redefined(macros, RoleFlags, Literals)
  /\ Ran(RoleFlags)
  /\ pc' = After("L34")
  /\ UNCHANGED <<env, hints, includes, reads, observed>>

\* line 40
SetMaxSpeed ==
  /\ pc = "L40"
  /\ macros' = Define(macros, {CFG_TUD_MAX_SPEED}, Literals)
  /\ diags' = diags \cup Redefined(macros, {CFG_TUD_MAX_SPEED}, Literals)
  /\ Ran({CFG_TUD_MAX_SPEED})
  /\ pc' = After("L40")
  /\ UNCHANGED <<env, hints, includes, reads, observed>>

\* lines 49-55
ResolveMemoryAttributes ==
  /\ pc = "L49"
  /\ macros' = IfndefDefine(macros, {CFG_TUSB_MEM_SECTION, CFG_TUSB_MEM_ALIGN},
                            Defaults(hints))
  /\ Ran({CFG_TUSB_MEM_SECTION, CFG_TUSB_MEM_ALIGN})
  /\ pc' = After("L49")
  /\ UNCHANGED <<env, hints, diags, includes, reads, observed>>

\* lines 61-63
ResolveEndpoint0Size ==
  /\ pc = "L61"
  /\ macros' = IfndefDefine(macros, {CFG_TUD_ENDPOINT0_SIZE}, Defaults(hints))
  /\ Ran({CFG_TUD_ENDPOINT0_SIZE})
  /\ pc' = After("L61")
  /\ UNCHANGED <<env, hints, diags, includes, reads, observed>>

\* the device class table wrapped in #ifndef
SetDeviceClassTableIfndef ==
  /\ pc = "L66"
  /\ macros' = IfndefDefine(macros, DeviceClassTable, Literals)
  /\ diags' = diags
  /\ Ran(DeviceClassTable)
  /\ pc' = After("L66")
  /\ UNCHANGED <<env, hints, includes, reads, observed>>

\* lines 66-74
SetDeviceClassTable ==
  /\ pc = "L66"
  /\ macros' = Define(macros, DeviceClassTable, Literals)
  /\ diags' = diags \cup Redefined(macros, DeviceClassTable, Literals)
  /\ Ran(DeviceClassTable)
  /\ pc' = After("L66")
  /\ UNCHANGED <<env, hints, includes, reads, observed>>

\* the host class table wrapped in #ifndef
SetHostClassTableIfndef ==
  /\ pc = "L81"
  /\ macros' = IfndefDefine(macros, HostClassTable, Literals)
  /\ diags' = diags
  /\ Ran(HostClassTable)
  /\ pc' = After("L81")
  /\ UNCHANGED <<env, hints, includes, reads, observed>>

\* lines 81-87
SetHostClassTable ==
  /\ pc = "L81"
  /\ macros' = Define(macros, HostClassTable, Literals)
  /\ diags' = diags \cup Redefined(macros, HostClassTable, Literals)
  /\ Ran(HostClassTable)
  /\ pc' = After("L81")
  /\ UNCHANGED <<env, hints, includes, reads, observed>>

\* line 90
DeriveHostDeviceCapacity ==
  /\ pc = "L90"
  /\ macros' = Define(macros, {CFG_TUH_DEVICE_MAX}, Literals)
  /\ diags' = diags \cup Redefined(macros, {CFG_TUH_DEVICE_MAX}, Literals)
  /\ Ran({CFG_TUH_DEVICE_MAX})
  /\ pc' = After("L90")
  /\ UNCHANGED <<env, hints, includes, reads, observed>>

\* text after the #include uses CFG_TUH_DEVICE_MAX
Consume ==
  /\ Done
  /\ reads < MaxReads
  /\ reads' = reads + 1
  /\ observed' = Expand(macros, CFG_TUH_DEVICE_MAX)
  /\ UNCHANGED <<env, hints, macros, pc, diags, resolved, includes>>

Next ==
  \/ ApplyCommandLine
  \/ Include
  \/ ResolvePlatform
  \/ ResolveOs
  \/ ResolveDebugLevel
  \/ SetRoleFlags
  \/ SetMaxSpeed
  \/ ResolveMemoryAttributes
  \/ ResolveEndpoint0Size
  \/ SetDeviceClassTable
  \/ SetHostClassTable
  \/ DeriveHostDeviceCapacity
  \/ Consume

Spec == Init /\ [][Next]_vars

\* the preprocessor never stops in the middle of the text it was given
FairSpec == Spec /\ WF_vars(Next)

TypeOK ==
  /\ pc \in {"start", "tu"} \cup {TextOrder[i] : i \in 1..Len(TextOrder)}
  /\ includes \in 0..MaxIncludes
  /\ reads \in 0..MaxReads
  /\ diags \subseteq Options

(* ------------------------------------------------------------------ *)
(* The derived-value expression on its own                             *)
(* ------------------------------------------------------------------ *)
\* macro tables as they stand after the header, for any hub count h and
\* any values of the other options
DerivedInputs(e, hs, h) ==
  [n \in MacroNames |->
     IF n = TUSB_CONFIG_H_ THEN Empty
     ELSE IF n = CFG_TUH_HUB THEN Num(h)
     ELSE IF n = CFG_TUH_DEVICE_MAX THEN Literal(n)
     ELSE IF e[n] # Undef THEN e[n]
     ELSE IF n \in Overridable THEN Default(n, hs)
     ELSE Literal(n)]

InitDerive ==
  /\ env \in CommandLines
  /\ hints \in SUBSET Hints
  /\ \E h \in 0..MaxHub : macros = DerivedInputs(env, hints, h)
  /\ pc = "tu"
  /\ diags = {}
  /\ resolved = [o \in Options |-> 1]
  /\ includes = 1
  /\ reads = 0
  /\ observed = Undef

NextDerive == Consume

SpecDerive == InitDerive /\ [][NextDerive]_vars

(* ------------------------------------------------------------------ *)
(* Properties                                                          *)
(* ------------------------------------------------------------------ *)
\* the header's rule for option o has run
Passed(o) == resolved[o] >= 1

\* C1: override wins.  For each option guarded by #ifndef (target MCU,
\* target OS, debug level, memory section, memory alignment, endpoint-0
\* size), when the command line supplies a value, the value in the table
\* after the option's rule is that value and not the header's default,
\* whatever platform hints are set.
OverrideWins ==
  \A o \in {CFG_TUSB_MCU, CFG_TUSB_OS, CFG_TUSB_DEBUG, CFG_TUSB_MEM_SECTION,
            CFG_TUSB_MEM_ALIGN, CFG_TUD_ENDPOINT0_SIZE} :
    (env[o] # Undef /\ Passed(o)) =>
       /\ macros[o] = env[o]
       /\ Expand(macros, o) = env[o]
       /\ macros[o] # Default(o, hints)
       /\ (o = CFG_TUD_ENDPOINT0_SIZE) => (macros[o] = Num(8) /\ macros[o] # Num(64))

\* endpoint-0 size supplied as 8, a platform hint set, header fully processed
OverrideWinsWitness ==
  /\ Done
  /\ env[CFG_TUD_ENDPOINT0_SIZE] = Num(8)
  /\ env[CFG_TUSB_MCU] # Undef
  /\ ARDUINO_ARCH_SAMD \in hints

\* C2: without an external MCU, the platform is the profile of the first
\* hint that is set, in the order SAMD, RP2040, ESP32, and OPT_MCU_NONE
\* when none is set; the resolution completes and the result is one of
\* the four profile symbols.
PlatformByPriority ==
  (env[CFG_TUSB_MCU] = Undef /\ Passed(CFG_TUSB_MCU)) =>
     /\ ARDUINO_ARCH_SAMD \in hints => macros[CFG_TUSB_MCU] = Sym("OPT_MCU_SAMD51")
     /\ (ARDUINO_ARCH_SAMD \notin hints /\ ARDUINO_ARCH_RP2040 \in hints)
           => macros[CFG_TUSB_MCU] = Sym("OPT_MCU_RP2040")
     /\ (ARDUINO_ARCH_SAMD \notin hints /\ ARDUINO_ARCH_RP2040 \notin hints
         /\ ARDUINO_ARCH_ESP32 \in hints)
           => macros[CFG_TUSB_MCU] = Sym("OPT_MCU_ESP32S2")
     /\ hints = {} => macros[CFG_TUSB_MCU] = Sym("OPT_MCU_NONE")
     /\ macros[CFG_TUSB_MCU] \in
          {Sym("OPT_MCU_SAMD51"), Sym("OPT_MCU_RP2040"),
           Sym("OPT_MCU_ESP32S2"), Sym("OPT_MCU_NONE")}
     /\ CFG_TUSB_MCU \notin diags

\* no external MCU, two hints set of which the first in order is RP2040
PlatformByPriorityWitness ==
  /\ Done
  /\ env[CFG_TUSB_MCU] = Undef
  /\ hints = {ARDUINO_ARCH_RP2040, ARDUINO_ARCH_ESP32}

\* C3: the expansion of CFG_TUH_DEVICE_MAX is 4 for every hub count >= 1
\* and 1 for hub count 0, whatever the hints and the other options'
\* values, and expanding it again gives the same value.
DerivationInvariant ==
  /\ [](reads >= 1 =>
          /\ macros[CFG_TUH_HUB].num >= 1 => observed = Num(4)
          /\ macros[CFG_TUH_HUB].num = 0 => observed = Num(1))
  /\ [][reads >= 1 => observed' = observed]_vars

\* hub count 2 expanded twice, with another option overridden
DerivationWitness ==
  /\ reads = 2
  /\ macros[CFG_TUH_HUB] = Num(2)
  /\ macros[CFG_TUD_ENDPOINT0_SIZE] = Num(8)
  /\ hints # {}

\* C4: once the header has been processed, CFG_TUD_ENABLED and
\* CFG_TUH_ENABLED are both 1, whatever the command line defined,
\* these two flags included.
RoleFlagsFixed ==
  Done => /\ macros[CFG_TUD_ENABLED] = Num(1)
          /\ macros[CFG_TUH_ENABLED] = Num(1)

\* the command line tried to turn both roles off
RoleFlagsWitness ==
  /\ Done
  /\ env[CFG_TUD_ENABLED] = Num(0)
  /\ env[CFG_TUH_ENABLED] = Num(0)

\* C5: an #ifndef-guarded option the command line does not define gets
\* its fixed default: OS none, debug 0, empty section attribute,
\* alignment 4, endpoint-0 size 64, whatever hints are set.
DefaultRule ==
  /\ (env[CFG_TUSB_OS] = Undef /\ Passed(CFG_TUSB_OS))
        => macros[CFG_TUSB_OS] = Sym("OPT_OS_NONE")
  /\ (env[CFG_TUSB_DEBUG] = Undef /\ Passed(CFG_TUSB_DEBUG))
        => macros[CFG_TUSB_DEBUG] = Num(0)
  /\ (env[CFG_TUSB_MEM_SECTION] = Undef /\ Passed(CFG_TUSB_MEM_SECTION))
        => macros[CFG_TUSB_MEM_SECTION] = Empty
  /\ (env[CFG_TUSB_MEM_ALIGN] = Undef /\ Passed(CFG_TUSB_MEM_ALIGN))
        => macros[CFG_TUSB_MEM_ALIGN] = Aligned(4)
  /\ (env[CFG_TUD_ENDPOINT0_SIZE] = Undef /\ Passed(CFG_TUD_ENDPOINT0_SIZE))
        => macros[CFG_TUD_ENDPOINT0_SIZE] = Num(64)

\* nothing defined on the command line, all hints set
DefaultRuleWitness ==
  /\ Done
  /\ \A o \in Options : env[o] = Undef
  /\ hints = Hints

\* the literals of lines 66-74 and 81-87
CapacityLiterals(t) ==
  /\ t[CFG_TUD_HID] = Num(3)
  /\ t[CFG_TUD_CDC] = Num(0)
  /\ t[CFG_TUD_MSC] = Num(0)
  /\ t[CFG_TUD_MIDI] = Num(0)
  /\ t[CFG_TUD_VENDOR] = Num(0)
  /\ t[CFG_TUD_HID_EP_BUFSIZE] = Num(64)
  /\ t[CFG_TUH_ENUMERATION_BUFSIZE] = Num(256)
  /\ t[CFG_TUH_HUB] = Num(0)
  /\ t[CFG_TUH_CDC] = Num(0)
  /\ t[CFG_TUH_HID] = Num(4)
  /\ t[CFG_TUH_MSC] = Num(0)
  /\ t[CFG_TUH_VENDOR] = Num(0)

\* C6 as stated: every entry of the capacity table, the endpoint-0 size
\* included, has the same literal after every resolution, whatever the
\* command line supplies for it.
CapacityTableFixedWithEndpoint0 ==
  Done => /\ CapacityLiterals(macros)
          /\ macros[CFG_TUD_ENDPOINT0_SIZE] = Num(64)

\* C6 amended: every class count and buffer size of the capacity table
\* (the endpoint-0 size excepted, which is #ifndef-guarded) has the same
\* literal after every resolution, whatever the command line supplies.
CapacityTableFixed ==
  Done => CapacityLiterals(macros)

\* the command line tried to change a device-side and a host-side entry
CapacityTableWitness ==
  /\ Done
  /\ env[CFG_TUD_HID] # Undef
  /\ env[CFG_TUH_ENUMERATION_BUFSIZE] # Undef

\* C7 as stated: with no external MCU and more than one hint set the
\* resolution does not complete (it ends in a build error).
ConflictingHintsFlagged ==
  (env[CFG_TUSB_MCU] = Undef /\ Cardinality(hints) > 1) =>
     /\ ~Done
     /\ ~(Passed(CFG_TUSB_MCU) /\ macros[CFG_TUSB_MCU] = resolve_platform(hints)
          /\ diags = {})

\* C8: once the header has been processed the hub count is 0 and the
\* device capacity expands to 1, for every command line and hint set.
ShippedDeviceCapacity ==
  /\ Done => /\ macros[CFG_TUH_HUB] = Num(0)
             /\ Expand(macros, CFG_TUH_DEVICE_MAX) = Num(1)
  /\ reads >= 1 => observed = Num(1)

\* the command line supplied hub count 2 and a consumer read the capacity
ShippedDeviceCapacityWitness ==
  /\ Done
  /\ env[CFG_TUH_HUB] = Num(2)
  /\ reads >= 1

\* progress of the single pass
Rank ==
  CASE pc = "start" -> 0
    [] pc = "tu" /\ macros[TUSB_CONFIG_H_] = Undef -> 1
    [] pc \in {"L13", "L25", "L29", "L34", "L40", "L49", "L61", "L66", "L81"} -> 2
    [] pc = "L90" -> 3
    [] Done -> 4

\* C9: the pass goes start, overrides applied, defaults, derived value,
\* done, one phase after the other and never back; it always reaches
\* done; the derived capacity is defined only after the hub count is, and
\* a consumer expands it only after both, never with the hub count unset.
SinglePassOrdering ==
  /\ [][Rank' \in {Rank, Rank + 1}]_vars
  /\ [](Passed(CFG_TUH_DEVICE_MAX) =>
          Passed(CFG_TUH_HUB) /\ macros[CFG_TUH_HUB] # Undef)
  /\ [](reads >= 1 =>
          /\ Passed(CFG_TUH_DEVICE_MAX)
          /\ Passed(CFG_TUH_HUB)
          /\ observed # Invalid)
  /\ <>Done

\* a consumer has read the capacity after the pass
SinglePassWitness ==
  /\ Done
  /\ reads >= 1
  /\ includes = 1
  /\ env[CFG_TUH_DEVICE_MAX] # Undef

\* C10: each option's rule runs exactly once; a rule writes only its own
\* option; after an option's rule has run nothing changes its value (a
\* second #include included); at done every option has a value.
ResolveOnce ==
  /\ [](\A o \in Options : resolved[o] <= 1)
  /\ [][\A o \in Options : Passed(o) => macros'[o] = macros[o]]_vars
  /\ [][\A o \in Options :
          (pc # "start" /\ macros'[o] # macros[o]) => resolved'[o] = resolved[o] + 1]_vars
  /\ [](Done => \A o \in Options : resolved[o] = 1 /\ macros[o] # Undef)

\* the header was included a second time and a consumer read afterwards
ResolveOnceWitness ==
  /\ Done
  /\ includes = 2
  /\ reads >= 1
  /\ env[CFG_TUD_HID] # Undef

====
